---- MODULE Spec2Model ----
(***************************************************************************)
(* Smart Bookmarker: the content-to-category pipeline of                   *)
(* backend/app/core/ai.py and the bookmark/folder endpoints of             *)
(* backend/app/api/endpoints over the SQLAlchemy store.                    *)
(*                                                                         *)
(* Text is modelled as a sequence of one-character strings, so that        *)
(* split/strip/startswith/slicing/lower are computed character by          *)
(* character as Python computes them.  Confidence scores are in            *)
(* thousandths (0.65 is 650, 0.3 is 300).                                  *)
(***************************************************************************)
EXTENDS Integers, Sequences, FiniteSets, TLC

\* ------------------------------------------------------------ bounds
\* Highest row id the store hands out (SQLite rowid is max(rowid)+1).
MaxFolderId == 3
MaxBookmarkId == 2

\* ------------------------------------------------------------ text
\* Python's None (an Optional[...] that is unset).
None == <<"None">>

\* Python truthiness of an Optional[str]: None and "" are falsy.
Truthy(s) == s # None /\ s # <<>>

Rep(c, n) == [i \in 1..n |-> c]

Min(a, b) == IF a < b THEN a ELSE b

\* s[:n] and s[n:]
Take(s, n) == SubSeq(s, 1, Min(n, Len(s)))
Drop(s, n) == SubSeq(s, Min(n, Len(s)) + 1, Len(s))

Last(s) == s[Len(s)]

\* str.startswith
StartsWith(s, p) == Len(s) >= Len(p) /\ SubSeq(s, 1, Len(p)) = p

Whitespace == {" ", "\n", "\t"}

RECURSIVE LStrip(_)
LStrip(s) == IF s # <<>> /\ Head(s) \in Whitespace THEN LStrip(Tail(s)) ELSE s

RECURSIVE RStrip(_)
RStrip(s) ==
    IF s # <<>> /\ Last(s) \in Whitespace THEN RStrip(SubSeq(s, 1, Len(s) - 1)) ELSE s

\* str.strip()
Strip(s) == RStrip(LStrip(s))

\* str.split(sep) for a non-empty separator: leftmost non-overlapping cuts.
RECURSIVE Split(_, _)
Split(s, sep) ==
    LET hits == {i \in 1..(Len(s) - Len(sep) + 1) : SubSeq(s, i, i + Len(sep) - 1) = sep}
    IN  IF hits = {} THEN <<s>>
        ELSE LET i == CHOOSE h \in hits : \A g \in hits : h <= g
             IN  <<SubSeq(s, 1, i - 1)>> \o Split(Drop(s, i + Len(sep) - 1), sep)

\* str.lower() over the letters the model uses.
UpperToLower == [T |-> "t", C |-> "c", N |-> "n", E |-> "e"]
LowerChar(c) == IF c \in DOMAIN UpperToLower THEN UpperToLower[c] ELSE c
Lower(s) == [i \in 1..Len(s) |-> LowerChar(s[i])]

\* dict.get(key, default)
DictGet(d, k, default) == IF k \in DOMAIN d THEN d[k] ELSE default

\* ------------------------------------------------------------ literals
TitlePrefix == <<"T", "i", "t", "l", "e", ":">>
DescriptionPrefix == <<"D", "e", "s", "c", "r", "i", "p", "t", "i", "o", "n", ":">>
FolderPrefix == <<"F", "o", "l", "d", "e", "r", ":">>
NoDescriptionAvailableDot ==
    <<"N", "o", " ", "d", "e", "s", "c", "r", "i", "p", "t", "i", "o", "n", " ",
      "a", "v", "a", "i", "l", "a", "b", "l", "e", ".">>
NoDescriptionAvailable ==
    <<"N", "o", " ", "d", "e", "s", "c", "r", "i", "p", "t", "i", "o", "n", " ",
      "a", "v", "a", "i", "l", "a", "b", "l", "e">>
Uncategorized == <<"U", "n", "c", "a", "t", "e", "g", "o", "r", "i", "z", "e", "d">>
General == <<"G", "e", "n", "e", "r", "a", "l">>
create_new == <<"c", "r", "e", "a", "t", "e", "_", "n", "e", "w">>

\* A call either returns a value or raises.
Return(v) == [exc |-> FALSE, val |-> v]
Raise == [exc |-> TRUE]

\* ------------------------------------------------------------ Content Extractor
\* url.split("//")[-1].split("/")[0]
domain(url) == Head(Split(Last(Split(url, <<"/", "/">>)), <<"/">>))

\* fetch_url_content: page is what the network and the markup give.  page.ok is
\* FALSE when the GET or raise_for_status raises.  The JSON text the function
\* returns is read back by its only caller with json.loads; the dictionary is
\* modelled directly.  list_items and keywords are read by no later stage.
fetch_url_content(url, page) ==
    IF page.ok
    THEN [title       |-> page.title,
          description |-> page.meta_desc,
          content     |-> Take(Take(page.main, 1000), 1500),
          url         |-> url,
          domain      |-> domain(url)]
    ELSE [error  |-> <<"Could not fetch content from ">> \o url,
          domain |-> domain(url),
          url    |-> url]

\* ------------------------------------------------------------ Metadata Generator
\* The loop over result.split('\n'): the last Title:/Description: line wins.
RECURSIVE ParseTitleDescription(_, _, _)
ParseTitleDescription(lines, title, description) ==
    IF lines = <<>> THEN <<title, description>>
    ELSE LET line == Strip(Head(lines))
         IN  IF StartsWith(line, TitlePrefix)
             THEN ParseTitleDescription(Tail(lines), Strip(Drop(line, 6)), description)
             ELSE IF StartsWith(line, DescriptionPrefix)
             THEN ParseTitleDescription(Tail(lines), title, Strip(Drop(line, 12)))
             ELSE ParseTitleDescription(Tail(lines), title, description)

\* Lines 230-235: the fallbacks applied to the parsed pair.
TitleFallback(title, content, url) ==
    IF ~Truthy(title) \/ Len(title) < 5
    THEN DictGet(content, "title", domain(url))
    ELSE title

DescriptionFallback(description, content) ==
    IF ~Truthy(description) \/ Len(description) < 10
    THEN DictGet(content, "description", NoDescriptionAvailableDot)
    ELSE description

\* The body of generate_title_description's try block after the fetch.
GenerateBody(url, content, llm) ==
    IF llm.kind = "error" THEN Raise
    ELSE LET parsed == ParseTitleDescription(Split(llm.text, <<"\n">>), <<>>, <<>>)
         IN  Return(<<TitleFallback(parsed[1], content, url),
                      DescriptionFallback(parsed[2], content)>>)

\* try: ... except Exception: return domain, "No description available"
GenerateFromContent(url, content, llm) ==
    LET r == GenerateBody(url, content, llm)
    IN  IF r.exc THEN Return(<<domain(url), NoDescriptionAvailable>>) ELSE r

generate_title_description(url, user_note, page, llm) ==
    GenerateFromContent(url, fetch_url_content(url, page), llm)

\* ------------------------------------------------------------ Category Analyzer
CategoryFallback ==
    [primary_category |-> Uncategorized,
     subcategory      |-> General,
     confidence_score |-> 300,
     rationale        |-> <<"Could not analyze content properly due to an error.">>]

\* The try block: the chain prompt | llm | PydanticOutputParser raises when the
\* request fails and when the text does not parse into CategoryResponse.
AnalyzeBody(url, user_note, title, description, llm) ==
    IF llm.kind # "object" THEN Raise
    ELSE Return([primary_category |-> llm.obj.primary_category,
                 subcategory      |-> llm.obj.subcategory,
                 confidence_score |-> llm.obj.confidence_score,
                 rationale        |-> llm.obj.rationale])

\* analyze_content_for_category without its except clause (lines 299-308).
analyze_content_for_category_uncaught(url, user_note, title, description, llm) ==
    AnalyzeBody(url, user_note, title, description, llm)

analyze_content_for_category(url, user_note, title, description, llm) ==
    LET r == AnalyzeBody(url, user_note, title, description, llm)
    IN  IF r.exc THEN Return(CategoryFallback) ELSE r

\* ------------------------------------------------------------ Folder Matcher
\* The index at which a for loop over existing_folders first meets a hit.
FirstOf(hits) == CHOOSE i \in hits : \A j \in hits : i <= j

\* ResolveMatch with the threshold test written <= 0.65.
ResolveMatch_rejects_threshold(result, existing_folders) ==
    LET exact == {i \in 1..Len(existing_folders) :
                    existing_folders[i] = result.matching_folder}
        caseInsensitive == {i \in 1..Len(existing_folders) :
                    Lower(existing_folders[i]) = Lower(result.matching_folder)}
    IN  IF result.matching_folder = create_new \/ result.confidence_score <= 650
        THEN None
        ELSE IF exact # {} THEN existing_folders[FirstOf(exact)]
        ELSE IF caseInsensitive # {} THEN existing_folders[FirstOf(caseInsensitive)]
        ELSE None

\* ResolveMatch returning the model's string when it matches case-insensitively.
ResolveMatch_verbatim(result, existing_folders) ==
    LET exact == {i \in 1..Len(existing_folders) :
                    existing_folders[i] = result.matching_folder}
        caseInsensitive == {i \in 1..Len(existing_folders) :
                    Lower(existing_folders[i]) = Lower(result.matching_folder)}
    IN  IF result.matching_folder = create_new \/ result.confidence_score < 650
        THEN None
        ELSE IF exact # {} THEN existing_folders[FirstOf(exact)]
        ELSE IF caseInsensitive # {} THEN result.matching_folder
        ELSE None

\* Lines 366-381: acceptance, then the two resolution loops.
ResolveMatch(result, existing_folders) ==
    LET exact == {i \in 1..Len(existing_folders) :
                    existing_folders[i] = result.matching_folder}
        caseInsensitive == {i \in 1..Len(existing_folders) :
                    Lower(existing_folders[i]) = Lower(result.matching_folder)}
    IN  IF result.matching_folder = create_new \/ result.confidence_score < 650
        THEN None
        ELSE IF exact # {} THEN existing_folders[FirstOf(exact)]
        ELSE IF caseInsensitive # {} THEN existing_folders[FirstOf(caseInsensitive)]
        ELSE None

\* The generation requests find_matching_folder issues: none when the list is
\* empty (the early return of line 320).
FindMatchingRequests(existing_folders) ==
    IF existing_folders = <<>> THEN <<>> ELSE <<"folder_match_request">>

FindMatchingBody(category_suggestion, existing_folders, llm) ==
    IF existing_folders = <<>> THEN Return(None)
    ELSE IF llm.kind # "object" THEN Raise
    ELSE Return(ResolveMatch(llm.obj, existing_folders))

\* try: ... except Exception: return None
find_matching_folder(category_suggestion, existing_folders, llm) ==
    LET r == FindMatchingBody(category_suggestion, existing_folders, llm)
    IN  IF r.exc THEN Return(None) ELSE r

\* ------------------------------------------------------------ New-folder naming
\* Lines 420-424: the first line that starts with "Folder:" (the line itself is
\* not stripped before the test), else "".
RECURSIVE ExtractFolderLine(_)
ExtractFolderLine(lines) ==
    IF lines = <<>> THEN <<>>
    ELSE IF StartsWith(Head(lines), FolderPrefix) THEN Strip(Drop(Head(lines), 7))
    ELSE ExtractFolderLine(Tail(lines))

\* CleanFolderName falling back to the literal instead of the category.
CleanFolderName_literal(folder_name, primary_category) ==
    IF Truthy(folder_name) /\ Len(folder_name) > 2
    THEN Take(folder_name, 30)
    ELSE Uncategorized

\* Lines 426-432: clean and validate.
CleanFolderName(folder_name, primary_category) ==
    IF Truthy(folder_name) /\ Len(folder_name) > 2
    THEN Take(folder_name, 30)
    ELSE primary_category

SuggestNameBody(category_suggestion, llm) ==
    IF llm.kind = "error" THEN Raise
    ELSE Return(CleanFolderName(ExtractFolderLine(Split(llm.text, <<"\n">>)),
                                category_suggestion.primary_category))

\* try: ... except Exception: return "Uncategorized"
suggest_folder_name(category_suggestion, llm) ==
    LET r == SuggestNameBody(category_suggestion, llm)
    IN  IF r.exc THEN Return(Uncategorized) ELSE r

\* ------------------------------------------------------------ Orchestration
\* suggest_folder, lines 445-462.  A stage that raised would be caught by the
\* outer except and give "Uncategorized".
suggest_folder(url, title, description, user_note, existing_folders, llmCat, llmMatch, llmName) ==
    LET category_data == analyze_content_for_category(url, user_note, title, description, llmCat)
        matching_folder ==
            IF category_data.exc THEN Raise
            ELSE find_matching_folder(category_data.val, existing_folders, llmMatch)
        new_folder ==
            IF category_data.exc THEN Raise
            ELSE suggest_folder_name(category_data.val, llmName)
    IN  IF category_data.exc \/ matching_folder.exc THEN Return(Uncategorized)
        ELSE IF Truthy(matching_folder.val) THEN Return(matching_folder.val)
        ELSE IF new_folder.exc THEN Return(Uncategorized)
        ELSE Return(new_folder.val)

\* process_bookmark, lines 465-479: no try block of its own.
process_bookmark(url, user_note, existing_folders, page, llmGen, llmCat, llmMatch, llmName) ==
    LET td == generate_title_description(url, user_note, page, llmGen)
    IN  IF td.exc THEN Raise
        ELSE LET f == suggest_folder(url, td.val[1], td.val[2], user_note, existing_folders,
                                     llmCat, llmMatch, llmName)
             IN  IF f.exc THEN Raise ELSE Return(<<td.val[1], td.val[2], f.val>>)

\* ------------------------------------------------------------ inputs
\* URLs: a bare host, a host with a path, and paths that contain "//".
Urls ==
    { <<"h", ":", "/", "/", "a", ".", "c">>,
      <<"h", ":", "/", "/", "a", ".", "c", "/", "p">>,
      <<"h", ":", "/", "/", "a", ".", "c", "/", "p", "/", "/", "q">>,
      <<"h", ":", "/", "/", "a", ".", "c", "/", "p", "/", "/">> }

Notes == { <<>>, <<"n">> }

FolderTec == <<"T", "e", "c">>
FolderTecLower == <<"t", "e", "c">>
FolderTecUpper == <<"T", "E", "C">>
FolderCoo == <<"C", "o", "o">>
FolderZzz == <<"z", "z", "z">>

\* Folder lists as db.query(Folder).all() gives them.  FolderCreate.name is any
\* str, so a stored name may be "", and names that differ only in case may
\* both be stored (the unique index is case-sensitive).
ExistingLists ==
    { <<>>,
      <<FolderTec, FolderCoo>>,
      <<FolderTec, FolderTecLower>>,
      <<<<>>, FolderCoo>> }

PageTitle == <<"P", "a", "g", "e">>
PageDescription == <<"a", "b", "o", "u", "t">>

\* What the GET and the markup give: a failure, or a page whose <title> and
\* meta description are each present or empty.
Pages ==
    { [ok |-> FALSE] } \cup
    { [ok |-> TRUE, title |-> t, meta_desc |-> d, main |-> <<"m">>] :
        t \in {<<>>, PageTitle}, d \in {<<>>, PageDescription} }

Text(t) == [kind |-> "text", text |-> t]
Object(o) == [kind |-> "object", obj |-> o]
RequestError == [kind |-> "error"]
Unparseable == [kind |-> "unparseable"]

\* Answers of the title/description chain (StrOutputParser: any text, or the
\* request raises).
GenOutcomes ==
    { RequestError,
      Text(<<>>),
      Text(TitlePrefix \o <<" ">> \o Rep("a", 5) \o <<"\n">> \o
           DescriptionPrefix \o <<" ">> \o Rep("b", 10)),
      Text(TitlePrefix \o <<" ">> \o Rep("a", 4) \o <<"\n">> \o
           DescriptionPrefix \o <<" ">> \o Rep("b", 9)),
      Text(<<" ", " ">> \o TitlePrefix \o Rep("a", 6) \o <<" ", "\n", "x">>),
      Text(TitlePrefix \o Rep("a", 5) \o <<"\n">> \o TitlePrefix \o <<" ", "\n">> \o
           DescriptionPrefix \o Rep("b", 11)) }

Category(p, c) ==
    [primary_category |-> p, subcategory |-> <<"s">>, confidence_score |-> c,
     rationale |-> <<"r">>]

\* Answers of the category chain (PydanticOutputParser).
CatOutcomes ==
    { RequestError, Unparseable,
      Object(Category(<<"T", "e", "c", "h">>, 900)),
      Object(Category(Rep("x", 31), 500)) }

Match(f, c) == [matching_folder |-> f, confidence_score |-> c, reasoning |-> <<"r">>]

\* Answers of the folder-match chain.
MatchOutcomes ==
    { RequestError, Unparseable,
      Object(Match(create_new, 900)),
      Object(Match(FolderTec, 650)),
      Object(Match(FolderTec, 649)),
      Object(Match(FolderTecLower, 800)),
      Object(Match(FolderTecUpper, 800)),
      Object(Match(FolderZzz, 900)),
      Object(Match(<<>>, 800)) }

\* Answers of the folder-name chain.
NameOutcomes ==
    { RequestError,
      Text(FolderPrefix \o <<" ", "T", "e", "c", " ", "N", "e", "w", "s">>),
      Text(FolderPrefix \o <<" ", "a", " ", "b", " ", "c", " ", "d", " ", "e">>),
      Text(FolderPrefix \o <<" ">> \o Rep("x", 31)),
      Text(FolderPrefix \o <<" ", "a", "b", " ">>),
      Text(<<"n", "o">>),
      Text(<<" ">> \o FolderPrefix \o <<" ", "T", "e", "c">>),
      Text(FolderPrefix \o <<" ", "\n">> \o FolderPrefix \o <<" ", "T", "e", "c">>) }

\* ------------------------------------------------------------ state
VARIABLES
    folders,          \* rows of the folders table: [id, name]
    bookmarks,        \* rows of the bookmarks table
    resp,             \* the response to the last API request
    runs,             \* the create_bookmark requests in flight, per worker
    pc,               \* the stage a process_bookmark run has completed
    inp,              \* the run's arguments: url, user_note, existing_folders
    io,               \* what the network and the model answered, per stage
    content,          \* the dictionary fetch_url_content returned
    td,               \* <<title, description>>
    category_data,    \* analyze_content_for_category's dictionary
    matching_folder,  \* find_matching_folder's result
    folder_name,      \* the folder name of the returned triple
    trace             \* stages entered and generation requests issued, in order

storeVars == <<folders, bookmarks, resp, runs>>
pipeVars == <<pc, inp, io, content, td, category_data, matching_folder, folder_name, trace>>
vars == <<folders, bookmarks, resp, runs, pc, inp, io, content, td, category_data,
          matching_folder, folder_name, trace>>

Unset == [unset |-> TRUE]
NoResponse == [op |-> "none", status |-> 0]

\* Requests the server works on at the same time.
Workers == {1, 2}
IdleRun == [pc |-> "idle", req |-> Unset, generated |-> Unset, status |-> 0]
NoRuns == [w \in Workers |-> IdleRun]

\* ------------------------------------------------------------ process_bookmark, stage by stage
PipeIdle ==
    /\ io = [page |-> Unset, gen |-> Unset, cat |-> Unset, match |-> Unset, name |-> Unset]
    /\ content = Unset
    /\ td = <<None, None>>
    /\ category_data = Unset
    /\ matching_folder = None
    /\ folder_name = None
    /\ trace = <<>>

InitPipe ==
    /\ folders = {} /\ bookmarks = {} /\ resp = NoResponse /\ runs = NoRuns
    /\ pc = "START"
    /\ inp \in [url : Urls, user_note : Notes, existing_folders : ExistingLists]
    /\ PipeIdle

\* generate_title_description, line 159: the fetch.
Extract ==
    /\ pc = "START"
    /\ \E page \in Pages :
        /\ io' = [io EXCEPT !.page = page]
        /\ content' = fetch_url_content(inp.url, page)
    /\ trace' = Append(trace, "extract")
    /\ pc' = "extract"
    /\ UNCHANGED <<storeVars, inp, td, category_data, matching_folder, folder_name>>

\* generate_title_description, lines 160-242: the request and the fallbacks.
\* process_bookmark has no try block: a raise here would leave the run.
GenerateMetadata ==
    /\ pc = "extract"
    /\ \E llm \in GenOutcomes :
        LET r == GenerateFromContent(inp.url, content, llm)
        IN  /\ io' = [io EXCEPT !.gen = llm]
            /\ td' = IF r.exc THEN td ELSE r.val
            /\ pc' = IF r.exc THEN "RAISED" ELSE "generate_metadata"
    /\ trace' = trace \o <<"generate_metadata", "metadata_request">>
    /\ UNCHANGED <<storeVars, inp, content, category_data, matching_folder, folder_name>>

\* suggest_folder, line 447.  A raise inside suggest_folder is caught by its
\* except (line 460), which returns "Uncategorized".
AnalyzeCategory ==
    /\ pc = "generate_metadata"
    /\ \E llm \in CatOutcomes :
        LET r == analyze_content_for_category(inp.url, inp.user_note, td[1], td[2], llm)
        IN  /\ io' = [io EXCEPT !.cat = llm]
            /\ category_data' = IF r.exc THEN category_data ELSE r.val
            /\ folder_name' = IF r.exc THEN Uncategorized ELSE folder_name
            /\ pc' = IF r.exc THEN "DONE" ELSE "analyze_category"
    /\ trace' = trace \o <<"analyze_category", "category_request">>
    /\ UNCHANGED <<storeVars, inp, content, td, matching_folder>>

\* suggest_folder, line 450.
MatchFolder ==
    /\ pc = "analyze_category"
    /\ \E llm \in MatchOutcomes :
        LET r == find_matching_folder(category_data, inp.existing_folders, llm)
        IN  /\ io' = [io EXCEPT !.match = llm]
            /\ matching_folder' = IF r.exc THEN matching_folder ELSE r.val
            /\ folder_name' = IF r.exc THEN Uncategorized ELSE folder_name
            /\ pc' = IF r.exc THEN "DONE" ELSE "match_or_create_folder"
    /\ trace' = trace \o <<"match_or_create_folder">> \o FindMatchingRequests(inp.existing_folders)
    /\ UNCHANGED <<storeVars, inp, content, td, category_data>>

\* suggest_folder, lines 453-454: if matching_folder: return matching_folder
ReturnMatchingFolder ==
    /\ pc = "match_or_create_folder"
    /\ Truthy(matching_folder)
    /\ folder_name' = matching_folder
    /\ pc' = "DONE"
    /\ UNCHANGED <<storeVars, inp, io, content, td, category_data, matching_folder, trace>>

\* suggest_folder, lines 457-459.
SuggestNewFolder ==
    /\ pc = "match_or_create_folder"
    /\ ~Truthy(matching_folder)
    /\ \E llm \in NameOutcomes :
        LET r == suggest_folder_name(category_data, llm)
        IN  /\ io' = [io EXCEPT !.name = llm]
            /\ folder_name' = IF r.exc THEN Uncategorized ELSE r.val
    /\ trace' = Append(trace, "folder_name_request")
    /\ pc' = "DONE"
    /\ UNCHANGED <<storeVars, inp, content, td, category_data, matching_folder>>

NextPipe ==
    \/ Extract
    \/ GenerateMetadata
    \/ AnalyzeCategory
    \/ MatchFolder
    \/ ReturnMatchingFolder
    \/ SuggestNewFolder

SpecPipe == InitPipe /\ [][NextPipe]_vars

\* ------------------------------------------------------------ the store
FolderRow(i, n) == [id |-> i, name |-> n]
BookmarkRow(i, u, t, d, n, f) ==
    [id |-> i, url |-> u, title |-> t, description |-> d, user_note |-> n, folder_id |-> f]

Ids(rows) == {r.id : r \in rows}

\* Integer primary key without AUTOINCREMENT: SQLite gives max(rowid) + 1.
NewId(rows) ==
    IF rows = {} THEN 1 ELSE (CHOOSE i \in Ids(rows) : \A j \in Ids(rows) : j <= i) + 1

\* [folder.name for folder in db.query(Folder).all()], in rowid order.
RECURSIVE NamesInOrder(_)
NamesInOrder(rows) ==
    IF rows = {} THEN <<>>
    ELSE LET first == CHOOSE r \in rows : \A q \in rows : r.id <= q.id
         IN  <<first.name>> \o NamesInOrder(rows \ {first})

\* An Optional[int] request field.
NoInt == [some |-> FALSE]
SomeInt(i) == [some |-> TRUE, v |-> i]

Response(op, status, id) == [op |-> op, status |-> status, id |-> id]

UrlA == <<"h", ":", "/", "/", "a", ".", "c">>
TitleOne == <<"t", "1">>
TitleTwo == <<"t", "2">>
DescOne == <<"d", "1">>
DescTwo == <<"d", "2">>
NoteOne == <<"n", "1">>

\* Names a client may send to create_folder.
FolderNames == {FolderTec, FolderTecLower, FolderCoo}

\* Contents of bookmarks.db when the application starts: create_all (main.py)
\* adds missing tables and keeps the rows already there.  The rows are as
\* lines 24-42 of create_bookmark write them: a bookmark carries the id of a
\* folder row that was read or inserted just before it.
InitStores ==
    { <<{}, {}>>,
      <<{FolderRow(1, FolderTec)}, {}>>,
      <<{FolderRow(1, FolderTec), FolderRow(2, FolderCoo)},
        {BookmarkRow(1, UrlA, TitleOne, DescOne, None, 1)}>>,
      <<{FolderRow(1, FolderTec), FolderRow(2, FolderCoo)},
        {BookmarkRow(1, UrlA, TitleOne, DescOne, None, 1),
         BookmarkRow(2, UrlA, TitleTwo, DescTwo, NoteOne, 2)}>> }

Init ==
    /\ \E store \in InitStores : folders = store[1] /\ bookmarks = store[2]
    /\ resp = NoResponse
    /\ runs = NoRuns
    /\ pc = "idle"
    /\ inp = Unset
    /\ PipeIdle

\* ------------------------------------------------------------ folder endpoints
\* POST /api/folders
create_folder(name) ==
    IF \E f \in folders : f.name = name
    THEN /\ resp' = Response("create_folder", 400, 0)
         /\ UNCHANGED <<folders, bookmarks>>
    ELSE /\ NewId(folders) <= MaxFolderId
         /\ folders' = folders \cup {FolderRow(NewId(folders), name)}
         /\ resp' = Response("create_folder", 200, NewId(folders))
         /\ UNCHANGED bookmarks

\* folder.bookmarks: the relationship, loaded from the bookmarks table.
FolderBookmarks(folder_id) == {b \in bookmarks : b.folder_id = folder_id}

\* delete_folder without the folder.bookmarks test of line 47.
delete_folder_unguarded(folder_id) ==
    IF ~\E f \in folders : f.id = folder_id
    THEN /\ resp' = Response("delete_folder", 404, folder_id)
         /\ UNCHANGED <<folders, bookmarks>>
    ELSE /\ folders' = {f \in folders : f.id # folder_id}
         /\ resp' = Response("delete_folder", 200, folder_id)
         /\ UNCHANGED bookmarks

\* DELETE /api/folders/{folder_id}
delete_folder(folder_id) ==
    IF ~\E f \in folders : f.id = folder_id
    THEN /\ resp' = Response("delete_folder", 404, folder_id)
         /\ UNCHANGED <<folders, bookmarks>>
    ELSE IF FolderBookmarks(folder_id) # {}
    THEN /\ resp' = Response("delete_folder", 400, folder_id)
         /\ UNCHANGED <<folders, bookmarks>>
    ELSE /\ folders' = {f \in folders : f.id # folder_id}
         /\ resp' = Response("delete_folder", 200, folder_id)
         /\ UNCHANGED bookmarks

\* ------------------------------------------------------------ bookmark endpoints
\* The parameters of suggest_folder (ai.py line 438); none has a default.
suggest_folder_params == <<"url", "title", "description", "user_note", "existing_folders">>

\* Python binds a call's positional arguments to the parameters and raises
\* TypeError when a required parameter is left without one.
Binds(params, args) == Len(args) = Len(params)

\* POST /api/bookmarks.  An exception leaves the handler before any commit:
\* the session is closed by get_db and the response is a 500.
create_bookmark(url, user_note, page, llmGen) ==
    LET generated == generate_title_description(url, user_note, page, llmGen)
        existing_folders == NamesInOrder(folders)
        args == <<generated.val[1], generated.val[2], existing_folders>>
    IN  IF generated.exc \/ ~Binds(suggest_folder_params, args)
        THEN /\ resp' = Response("create_bookmark", 500, 0)
             /\ UNCHANGED <<folders, bookmarks>>
        ELSE \E llmCat \in CatOutcomes, llmMatch \in MatchOutcomes, llmName \in NameOutcomes :
            LET suggested == suggest_folder(args[1], args[2], args[3], args[4], args[5],
                                            llmCat, llmMatch, llmName)
                found == {f \in folders : f.name = suggested.val}
                folder_id == IF found # {} THEN (CHOOSE f \in found : TRUE).id
                             ELSE NewId(folders)
            IN  /\ ~suggested.exc
                /\ folder_id <= MaxFolderId
                /\ NewId(bookmarks) <= MaxBookmarkId
                /\ folders' = IF found # {} THEN folders
                              ELSE folders \cup {FolderRow(folder_id, suggested.val)}
                /\ bookmarks' = bookmarks \cup
                       {BookmarkRow(NewId(bookmarks), url, generated.val[1],
                                    generated.val[2], user_note, folder_id)}
                /\ resp' = Response("create_bookmark", 200, NewId(bookmarks))

\* suggest_bookmark_metadata calling suggest_folder with all five arguments
\* and then looking the folder up and inserting it as create_bookmark does in
\* lines 24-29.
suggest_bookmark_metadata_persisting(url, user_note, page, llmGen) ==
    LET generated == generate_title_description(url, user_note, page, llmGen)
        existing_folders == NamesInOrder(folders)
    IN  \E llmName \in {RequestError, Text(FolderPrefix \o <<" ", "T", "e", "c">>)} :
            LET suggested == suggest_folder(url, generated.val[1], generated.val[2], user_note,
                                            existing_folders, RequestError, RequestError, llmName)
                found == {f \in folders : f.name = suggested.val}
            IN  /\ found = {} => NewId(folders) <= MaxFolderId
                /\ folders' = IF found # {} THEN folders
                              ELSE folders \cup {FolderRow(NewId(folders), suggested.val)}
                /\ resp' = [op |-> "suggest_bookmark_metadata", status |-> 200, id |-> 0,
                            suggestion |-> <<generated.val[1], generated.val[2], suggested.val>>]
                /\ UNCHANGED bookmarks

\* POST /api/bookmarks/suggest.  The handler has the same three calls as
\* create_bookmark (lines 50, 53, 56) and then returns the triple; it has no
\* db.add and no db.commit.
suggest_bookmark_metadata(url, user_note, page, llmGen) ==
    LET generated == generate_title_description(url, user_note, page, llmGen)
        existing_folders == NamesInOrder(folders)
        args == <<generated.val[1], generated.val[2], existing_folders>>
    IN  IF generated.exc \/ ~Binds(suggest_folder_params, args)
        THEN /\ resp' = Response("suggest_bookmark_metadata", 500, 0)
             /\ UNCHANGED <<folders, bookmarks>>
        ELSE \E llmCat \in CatOutcomes, llmMatch \in MatchOutcomes, llmName \in NameOutcomes :
            LET suggested == suggest_folder(args[1], args[2], args[3], args[4], args[5],
                                            llmCat, llmMatch, llmName)
            IN  /\ ~suggested.exc
                /\ resp' = [op |-> "suggest_bookmark_metadata", status |-> 200, id |-> 0,
                            suggestion |-> <<generated.val[1], generated.val[2], suggested.val>>]
                /\ UNCHANGED <<folders, bookmarks>>

\* update_bookmark without the folder lookup of lines 101-103.
update_bookmark_unchecked(bookmark_id, title, description, user_note, folder_id) ==
    IF ~\E b \in bookmarks : b.id = bookmark_id
    THEN /\ resp' = Response("update_bookmark", 404, bookmark_id)
         /\ UNCHANGED <<folders, bookmarks>>
    ELSE LET bookmark == CHOOSE b \in bookmarks : b.id = bookmark_id
             b1 == IF title # None THEN [bookmark EXCEPT !.title = title] ELSE bookmark
             b2 == IF description # None THEN [b1 EXCEPT !.description = description] ELSE b1
             b3 == IF user_note # None THEN [b2 EXCEPT !.user_note = user_note] ELSE b2
             b4 == IF folder_id.some THEN [b3 EXCEPT !.folder_id = folder_id.v] ELSE b3
         IN  /\ bookmarks' = (bookmarks \ {bookmark}) \cup {b4}
             /\ resp' = Response("update_bookmark", 200, bookmark_id)
             /\ UNCHANGED folders

\* PUT /api/bookmarks/{bookmark_id}.  The assignments of lines 93-104 change
\* the session's object; only db.commit() (line 106) writes them.
update_bookmark(bookmark_id, title, description, user_note, folder_id) ==
    IF ~\E b \in bookmarks : b.id = bookmark_id
    THEN /\ resp' = Response("update_bookmark", 404, bookmark_id)
         /\ UNCHANGED <<folders, bookmarks>>
    ELSE LET bookmark == CHOOSE b \in bookmarks : b.id = bookmark_id
             b1 == IF title # None THEN [bookmark EXCEPT !.title = title] ELSE bookmark
             b2 == IF description # None THEN [b1 EXCEPT !.description = description] ELSE b1
             b3 == IF user_note # None THEN [b2 EXCEPT !.user_note = user_note] ELSE b2
         IN  IF folder_id.some /\ ~\E f \in folders : f.id = folder_id.v
             THEN /\ resp' = Response("update_bookmark", 404, bookmark_id)
                  /\ UNCHANGED <<folders, bookmarks>>
             ELSE LET b4 == IF folder_id.some THEN [b3 EXCEPT !.folder_id = folder_id.v]
                            ELSE b3
                  IN  /\ bookmarks' = (bookmarks \ {bookmark}) \cup {b4}
                      /\ resp' = Response("update_bookmark", 200, bookmark_id)
                      /\ UNCHANGED folders

\* DELETE /api/bookmarks/{bookmark_id}
delete_bookmark(bookmark_id) ==
    IF ~\E b \in bookmarks : b.id = bookmark_id
    THEN /\ resp' = Response("delete_bookmark", 404, bookmark_id)
         /\ UNCHANGED <<folders, bookmarks>>
    ELSE /\ bookmarks' = {b \in bookmarks : b.id # bookmark_id}
         /\ resp' = Response("delete_bookmark", 200, bookmark_id)
         /\ UNCHANGED folders

\* ------------------------------------------------------------ requests, one at a time
CreateFolder ==
    /\ \E name \in FolderNames : create_folder(name)
    /\ UNCHANGED <<runs, pipeVars>>

DeleteFolder ==
    /\ \E folder_id \in 1..MaxFolderId : delete_folder(folder_id)
    /\ UNCHANGED <<runs, pipeVars>>

\* Requests a client sends to POST /api/bookmarks, with what the network and
\* the model answer while the handler runs.
CreateRequests ==
    { <<url, user_note, page, llmGen>> :
        url \in {UrlA},
        user_note \in {None, <<"n">>},
        page \in {[ok |-> FALSE],
                  [ok |-> TRUE, title |-> PageTitle, meta_desc |-> <<>>, main |-> <<"m">>]},
        llmGen \in {RequestError,
                    Text(TitlePrefix \o <<" ">> \o Rep("a", 5) \o <<"\n">> \o
                         DescriptionPrefix \o <<" ">> \o Rep("b", 10))} }

CreateBookmark ==
    /\ \E r \in CreateRequests : create_bookmark(r[1], r[2], r[3], r[4])
    /\ UNCHANGED <<runs, pipeVars>>

SuggestBookmarkMetadata ==
    /\ \E r \in CreateRequests : suggest_bookmark_metadata(r[1], r[2], r[3], r[4])
    /\ UNCHANGED <<runs, pipeVars>>

UpdateBookmark ==
    /\ \E bookmark_id \in 1..MaxBookmarkId,
          title \in {None, TitleTwo},
          description \in {None, DescTwo},
          user_note \in {None, NoteOne},
          folder_id \in {NoInt} \cup {SomeInt(i) : i \in 1..MaxFolderId} :
        update_bookmark(bookmark_id, title, description, user_note, folder_id)
    /\ UNCHANGED <<runs, pipeVars>>

DeleteBookmark ==
    /\ \E bookmark_id \in 1..MaxBookmarkId : delete_bookmark(bookmark_id)
    /\ UNCHANGED <<runs, pipeVars>>

Next ==
    \/ CreateFolder
    \/ DeleteFolder
    \/ CreateBookmark
    \/ SuggestBookmarkMetadata
    \/ UpdateBookmark
    \/ DeleteBookmark

Spec == Init /\ [][Next]_vars

\* ------------------------------------------------------------ concurrent create_bookmark requests
\* create_bookmark is a coroutine: other requests run while it awaits
\* generate_title_description (line 15).  Lines 18-21 run without suspension.
InitConc ==
    /\ \E store \in InitStores : folders = store[1] /\ bookmarks = store[2]
    /\ resp = NoResponse
    /\ runs = NoRuns
    /\ pc = "idle"
    /\ inp = Unset
    /\ PipeIdle

\* The request arrives.
BeginCreate(w) ==
    /\ runs[w].pc = "idle"
    /\ \E r \in CreateRequests : runs' = [runs EXCEPT ![w].pc = "line15", ![w].req = r]
    /\ UNCHANGED <<folders, bookmarks, resp, pipeVars>>

\* Line 15: await generate_title_description(url, user_note).
AwaitGenerate(w) ==
    /\ runs[w].pc = "line15"
    /\ LET r == runs[w].req
           generated == generate_title_description(r[1], r[2], r[3], r[4])
       IN  runs' = IF generated.exc
                   THEN [runs EXCEPT ![w].pc = "failed", ![w].status = 500]
                   ELSE [runs EXCEPT ![w].pc = "line18", ![w].generated = generated.val]
    /\ UNCHANGED <<folders, bookmarks, resp, pipeVars>>

\* Lines 18-21: list the folder names and call suggest_folder.  The call that
\* binds would take the run on to the lookup of line 24.
CallSuggestFolder(w) ==
    /\ runs[w].pc = "line18"
    /\ LET existing_folders == NamesInOrder(folders)
           args == <<runs[w].generated[1], runs[w].generated[2], existing_folders>>
       IN  runs' = IF ~Binds(suggest_folder_params, args)
                   THEN [runs EXCEPT ![w].pc = "failed", ![w].status = 500]
                   ELSE [runs EXCEPT ![w].pc = "line24"]
    /\ UNCHANGED <<folders, bookmarks, resp, pipeVars>>

NextConc ==
    \E w \in Workers :
        \/ BeginCreate(w)
        \/ AwaitGenerate(w)
        \/ CallSuggestFolder(w)

SpecConc == InitConc /\ [][NextConc]_vars

\* ------------------------------------------------------------ requests on concurrent sessions
\* update_bookmark and delete_folder are plain functions: the server runs them
\* on worker threads, each with the Session get_db gives it (database.py
\* lines 18-23).  A query reads the rows committed when it runs; changes to a
\* loaded object stay in the session until db.commit(), and db.close() drops
\* them when the handler raised.  The engine is SQLite without
\* PRAGMA foreign_keys, so the ForeignKey of Bookmark.folder_id is declared
\* and not enforced.
IdleThread ==
    [pc |-> "idle", op |-> "none", req |-> Unset, generated |-> Unset, status |-> 0,
     session |-> Unset]

\* The bodies of PUT /api/bookmarks/{bookmark_id} requests.
UpdateRequests ==
    [bookmark_id : 1..MaxBookmarkId,
     title       : {None, TitleTwo},
     description : {None, DescTwo},
     user_note   : {None, NoteOne},
     folder_id   : {NoInt} \cup {SomeInt(i) : i \in 1..MaxFolderId}]

\* The columns update_bookmark may assign.
MutableColumns == {"title", "description", "user_note", "folder_id"}

InitThreads ==
    /\ \E store \in InitStores : folders = store[1] /\ bookmarks = store[2]
    /\ resp = NoResponse
    /\ runs = [w \in Workers |-> IdleThread]
    /\ pc = "idle"
    /\ inp = Unset
    /\ PipeIdle

\* A PUT /api/bookmarks/{bookmark_id} request arrives.
BeginUpdate(w) ==
    /\ runs[w].pc = "idle"
    /\ \E req \in UpdateRequests :
        runs' = [runs EXCEPT ![w].pc = "line88", ![w].op = "update_bookmark", ![w].req = req]
    /\ UNCHANGED <<folders, bookmarks, resp, pipeVars>>

\* Lines 88-98: load the bookmark, 404 when there is none, then assign the
\* fields that are not None to the loaded object.
UpdateLoadAndAssign(w) ==
    /\ runs[w].pc = "line88"
    /\ LET req == runs[w].req
       IN  IF ~\E b \in bookmarks : b.id = req.bookmark_id
           THEN runs' = [runs EXCEPT ![w].pc = "done", ![w].status = 404]
           ELSE LET bookmark == CHOOSE b \in bookmarks : b.id = req.bookmark_id
                    b1 == IF req.title # None THEN [bookmark EXCEPT !.title = req.title]
                          ELSE bookmark
                    b2 == IF req.description # None
                          THEN [b1 EXCEPT !.description = req.description] ELSE b1
                    b3 == IF req.user_note # None
                          THEN [b2 EXCEPT !.user_note = req.user_note] ELSE b2
                IN  runs' = [runs EXCEPT ![w].pc = "line99",
                                         ![w].session = [loaded |-> bookmark, bookmark |-> b3]]
    /\ UNCHANGED <<folders, bookmarks, resp, pipeVars>>

\* UpdateVerifyFolder committing the session before it raises the 404.
UpdateVerifyFolder_commits_before_404(w) ==
    /\ runs[w].pc = "line99"
    /\ LET req == runs[w].req
           ses == runs[w].session
       IN  IF ~req.folder_id.some
           THEN runs' = [runs EXCEPT ![w].pc = "line106"] /\ UNCHANGED bookmarks
           ELSE IF ~\E f \in folders : f.id = req.folder_id.v
           THEN /\ runs' = [runs EXCEPT ![w].pc = "done", ![w].status = 404,
                                        ![w].session = Unset]
                /\ bookmarks' = {IF b.id = ses.loaded.id THEN ses.bookmark ELSE b :
                                    b \in bookmarks}
           ELSE /\ runs' = [runs EXCEPT ![w].pc = "line106",
                                        ![w].session.bookmark.folder_id = req.folder_id.v]
                /\ UNCHANGED bookmarks
    /\ UNCHANGED <<folders, resp, pipeVars>>

\* Lines 99-104: when folder_id is given, look the folder up; 404 when there
\* is none (the session is closed with its changes unwritten), else assign it.
UpdateVerifyFolder(w) ==
    /\ runs[w].pc = "line99"
    /\ LET req == runs[w].req
       IN  IF ~req.folder_id.some
           THEN runs' = [runs EXCEPT ![w].pc = "line106"]
           ELSE IF ~\E f \in folders : f.id = req.folder_id.v
           THEN runs' = [runs EXCEPT ![w].pc = "done", ![w].status = 404,
                                     ![w].session = Unset]
           ELSE runs' = [runs EXCEPT ![w].pc = "line106",
                                     ![w].session.bookmark.folder_id = req.folder_id.v]
    /\ UNCHANGED <<folders, bookmarks, resp, pipeVars>>

\* Lines 106-108: db.commit() flushes an UPDATE of the columns whose value
\* differs from the loaded one, for the row with the bookmark's id, and
\* commits; db.refresh reads the row back.  When the row is gone the UPDATE
\* matches no row (or the refresh finds none) and the handler raises.
UpdateCommit(w) ==
    /\ runs[w].pc = "line106"
    /\ LET ses == runs[w].session
           changed == {c \in MutableColumns : ses.bookmark[c] # ses.loaded[c]}
       IN  IF ~\E b \in bookmarks : b.id = ses.loaded.id
           THEN /\ runs' = [runs EXCEPT ![w].pc = "done", ![w].status = 500,
                                        ![w].session = Unset]
                /\ UNCHANGED bookmarks
           ELSE LET row == CHOOSE b \in bookmarks : b.id = ses.loaded.id
                    written == [c \in DOMAIN row |->
                                   IF c \in changed THEN ses.bookmark[c] ELSE row[c]]
                IN  /\ bookmarks' = (bookmarks \ {row}) \cup {written}
                    /\ runs' = [runs EXCEPT ![w].pc = "done", ![w].status = 200]
    /\ UNCHANGED <<folders, resp, pipeVars>>

\* A DELETE /api/folders/{folder_id} request arrives.
BeginDelete(w) ==
    /\ runs[w].pc = "idle"
    /\ \E folder_id \in 1..MaxFolderId :
        runs' = [runs EXCEPT ![w].pc = "line43", ![w].op = "delete_folder",
                             ![w].req = folder_id]
    /\ UNCHANGED <<folders, bookmarks, resp, pipeVars>>

\* folders.py lines 43-45: load the folder, 404 when there is none.
DeleteLoadFolder(w) ==
    /\ runs[w].pc = "line43"
    /\ runs' = IF ~\E f \in folders : f.id = runs[w].req
               THEN [runs EXCEPT ![w].pc = "done", ![w].status = 404]
               ELSE [runs EXCEPT ![w].pc = "line48"]
    /\ UNCHANGED <<folders, bookmarks, resp, pipeVars>>

\* folders.py lines 48-52: folder.bookmarks is loaded by a SELECT of its own;
\* 400 when it is not empty.
DeleteCheckBookmarks(w) ==
    /\ runs[w].pc = "line48"
    /\ runs' = IF FolderBookmarks(runs[w].req) # {}
               THEN [runs EXCEPT ![w].pc = "done", ![w].status = 400]
               ELSE [runs EXCEPT ![w].pc = "line54"]
    /\ UNCHANGED <<folders, bookmarks, resp, pipeVars>>

\* folders.py lines 54-57: DELETE the folder row and commit.  The collection
\* loaded at line 48 was empty, so the flush has no bookmark to detach.
DeleteCommit(w) ==
    /\ runs[w].pc = "line54"
    /\ folders' = {f \in folders : f.id # runs[w].req}
    /\ runs' = [runs EXCEPT ![w].pc = "done", ![w].status = 200]
    /\ UNCHANGED <<bookmarks, resp, pipeVars>>

NextThreads ==
    \E w \in Workers :
        \/ BeginUpdate(w)
        \/ UpdateLoadAndAssign(w)
        \/ UpdateVerifyFolder(w)
        \/ UpdateCommit(w)
        \/ BeginDelete(w)
        \/ DeleteLoadFolder(w)
        \/ DeleteCheckBookmarks(w)
        \/ DeleteCommit(w)
        \/ BeginCreate(w)
        \/ AwaitGenerate(w)
        \/ CallSuggestFolder(w)

SpecThreads == InitThreads /\ [][NextThreads]_vars

\* ------------------------------------------------------------ claims
\* C1: after any sequence of create/update/delete bookmark and create/delete
\* folder requests, every stored bookmark's folder_id is the id of a folder
\* that is in the store.
C1_FolderIdRefersToFolder ==
    \A b \in bookmarks : \E f \in folders : f.id = b.folder_id

\* A folder has just been deleted, or a bookmark re-filed, while bookmarks are stored.
C1_Witness ==
    /\ bookmarks # {}
    /\ \/ resp.op = "delete_folder" /\ resp.status = 200
       \/ resp.op = "update_bookmark" /\ resp.status = 200

\* C2: a create-bookmark request for a valid URL ends with the bookmark stored,
\* whatever the fetch and the generation did, and raises no error of its own.
C2_CreateStoresBookmark ==
    resp.op = "create_bookmark" =>
        /\ resp.status = 200
        /\ \E b \in bookmarks : b.id = resp.id

\* C3: when concurrent create-bookmark runs have all ended, no run has surfaced
\* an error, each has stored its bookmark, and no two folders share a name.
C3_ConcurrentCreatesSucceed ==
    (\A w \in Workers : runs[w].pc \in {"done", "failed"}) =>
        /\ \A w \in Workers : runs[w].pc = "done" /\ runs[w].status = 200
        /\ Cardinality(bookmarks) >= Cardinality(Workers)
        /\ \A f, g \in folders : f.name = g.name => f = g

\* C4: delete-folder answers 400 (the API's conflict response) and changes
\* nothing when the folder owns a bookmark, answers 200 and removes exactly
\* that folder when it owns none, and answers 404 and changes nothing when no
\* folder has the id.
C4_DeleteFolderOutcomes ==
    [][resp'.op = "delete_folder" =>
        LET folder_id == resp'.id
            exists == \E f \in folders : f.id = folder_id
            owned == {b \in bookmarks : b.folder_id = folder_id}
        IN  /\ (exists /\ owned # {}) =>
                resp'.status = 400 /\ folders' = folders /\ bookmarks' = bookmarks
            /\ (exists /\ owned = {}) =>
                /\ resp'.status = 200
                /\ folders' = {f \in folders : f.id # folder_id}
                /\ Cardinality(folders') = Cardinality(folders) - 1
                /\ bookmarks' = bookmarks
            /\ ~exists =>
                resp'.status = 404 /\ folders' = folders /\ bookmarks' = bookmarks]_vars

\* A delete of a folder that owns a bookmark has been refused.
C4_Witness ==
    /\ resp.op = "delete_folder"
    /\ resp.status = 400
    /\ \E b \in bookmarks : b.folder_id = resp.id

\* ------------------------------------------------------------ pipeline claims
Range(seq) == {seq[i] : i \in 1..Len(seq)}

\* The number of whitespace-separated words of a text.
WordCount(t) ==
    Cardinality({i \in 1..Len(t) :
        t[i] \notin Whitespace /\ (i = 1 \/ t[i - 1] \in Whitespace)})

Stages == <<"extract", "generate_metadata", "analyze_category", "match_or_create_folder">>

\* The stage entries of the trace, in order, without the requests.
StageEntries == SelectSeq(trace, LAMBDA e : e \in Range(Stages))

\* C5: process never raises, and the triple it returns has a non-empty title,
\* a non-empty description and a non-empty folder name, whatever the fetch and
\* each generation call did.
C5_ProcessReturnsFullTriple ==
    /\ pc # "RAISED"
    /\ pc = "DONE" => Truthy(td[1]) /\ Truthy(td[2]) /\ Truthy(folder_name)

\* C6: the matcher returns null when the folder list is empty (and issues no
\* request), when the model answers create_new, and when the confidence is
\* below 0.65; an answer naming a stored folder with confidence exactly 0.65
\* is accepted.
C6_MatcherNullConditions ==
    io.match # Unset =>
        LET existing == inp.existing_folders
            answered == io.match.kind = "object"
        IN  /\ existing = <<>> =>
                matching_folder = None /\ "folder_match_request" \notin Range(trace)
            /\ (answered /\ io.match.obj.matching_folder = create_new) =>
                matching_folder = None
            /\ (answered /\ io.match.obj.confidence_score < 650) =>
                matching_folder = None
            /\ (/\ answered
                /\ io.match.obj.confidence_score = 650
                /\ io.match.obj.matching_folder # create_new
                /\ io.match.obj.matching_folder \in Range(existing)) =>
                matching_folder # None

\* The model named a stored folder with confidence exactly 0.65 and the
\* matcher returned that folder.
C6_Witness ==
    /\ pc = "match_or_create_folder"
    /\ io.match = Object(Match(FolderTec, 650))
    /\ matching_folder = FolderTec

\* C7: a non-null result of the matcher is a stored name; an accepted answer
\* equal to a stored name gives that name, otherwise the first stored name
\* equal to it ignoring case, otherwise null.
C7_MatcherResolution ==
    io.match # Unset =>
        LET existing == inp.existing_folders
            accepted == /\ existing # <<>>
                        /\ io.match.kind = "object"
                        /\ io.match.obj.matching_folder # create_new
                        /\ io.match.obj.confidence_score >= 650
            answer == io.match.obj.matching_folder
            sameIgnoringCase == {i \in 1..Len(existing) : Lower(existing[i]) = Lower(answer)}
        IN  /\ matching_folder # None => matching_folder \in Range(existing)
            /\ (accepted /\ answer \in Range(existing)) => matching_folder = answer
            /\ (accepted /\ answer \notin Range(existing) /\ sameIgnoringCase # {}) =>
                \E i \in sameIgnoringCase :
                    /\ matching_folder = existing[i]
                    /\ \A j \in sameIgnoringCase : i <= j
            /\ (accepted /\ answer \notin Range(existing) /\ sameIgnoringCase = {}) =>
                matching_folder = None

\* The model echoed "TEC"; two stored names equal it ignoring case and the
\* first of them, "Tec", was returned.
C7_Witness ==
    /\ pc = "match_or_create_folder"
    /\ inp.existing_folders = <<FolderTec, FolderTecLower>>
    /\ io.match = Object(Match(FolderTecUpper, 800))
    /\ matching_folder = FolderTec

\* The name the folder-name chain generated: the text after "Folder:", trimmed.
GeneratedName == ExtractFolderLine(Split(io.name.text, <<"\n">>))

\* C8 as claimed: the returned name has at most 3 words and at most 30
\* characters, and is "Uncategorized" when the generated name is empty or has
\* 2 or fewer characters.
C8_NameCutToThreeWords ==
    (pc = "DONE" /\ io.name # Unset /\ io.name.kind = "text") =>
        /\ WordCount(folder_name) <= 3
        /\ Len(folder_name) <= 30
        /\ Len(GeneratedName) <= 2 => folder_name = Uncategorized

\* C8 as the code has it: a generated name of more than 2 characters is
\* returned cut to its first 30 characters, whatever its number of words; an
\* empty or shorter one gives the suggestion's primary category, unchanged;
\* "Uncategorized" is returned when the naming request raises.
C8_NameCutToThirtyChars ==
    (pc = "DONE" /\ io.name # Unset) =>
        /\ (io.name.kind = "text" /\ Len(GeneratedName) > 2) =>
            /\ Len(folder_name) = Min(30, Len(GeneratedName))
            /\ folder_name = SubSeq(GeneratedName, 1, Len(folder_name))
        /\ (io.name.kind = "text" /\ Len(GeneratedName) <= 2) =>
            folder_name = category_data.primary_category
        /\ io.name.kind = "error" => folder_name = Uncategorized

\* A 2-character generated name was replaced by the primary category.
C8_Witness ==
    /\ pc = "DONE"
    /\ io.name = Text(FolderPrefix \o <<" ", "a", "b", " ">>)
    /\ io.cat = Object(Category(<<"T", "e", "c", "h">>, 900))
    /\ folder_name = <<"T", "e", "c", "h">>

\* C9: when the generation call returns, the title is the parsed title if it
\* has 5 characters or more, else the content's title if non-empty, else the
\* URL's domain; the description is the parsed description if it has 10
\* characters or more, else the content's description if non-empty, else
\* "No description available.".
C9_FallbackChain ==
    (io.gen # Unset /\ io.gen.kind = "text") =>
        LET parsed == ParseTitleDescription(Split(io.gen.text, <<"\n">>), <<>>, <<>>)
            contentTitle == IF "title" \in DOMAIN content THEN content.title ELSE <<>>
            contentDescription ==
                IF "description" \in DOMAIN content THEN content.description ELSE <<>>
        IN  /\ td[1] = IF Len(parsed[1]) >= 5 THEN parsed[1]
                       ELSE IF contentTitle # <<>> THEN contentTitle
                       ELSE domain(inp.url)
            /\ td[2] = IF Len(parsed[2]) >= 10 THEN parsed[2]
                       ELSE IF contentDescription # <<>> THEN contentDescription
                       ELSE NoDescriptionAvailableDot

\* C10: the stages are entered once each, in the order extract,
\* generate_metadata, analyze_category, match_or_create_folder, all of them by
\* DONE; the folder-match request precedes the folder-name request, and the
\* folder-name request is issued only when the matcher returned null.
C10_StageOrder ==
    /\ StageEntries = SubSeq(Stages, 1, Len(StageEntries))
    /\ pc = "DONE" => StageEntries = Stages
    /\ \A i, j \in 1..Len(trace) :
        (trace[i] = "folder_name_request" /\ trace[j] = "folder_match_request") => j < i
    /\ "folder_name_request" \in Range(trace) => matching_folder = None

\* C11: when the category request fails or its answer does not parse, analyze
\* does not raise and returns primary_category "Uncategorized", subcategory
\* "General", confidence_score 0.3 and a rationale; the run goes on to the
\* matcher and to new-folder naming with that same suggestion, so a generated
\* name that is too short gives the folder name "Uncategorized".
C11_AnalyzerFallback ==
    (io.cat # Unset /\ io.cat.kind \in {"error", "unparseable"}) =>
        /\ pc = "analyze_category" \/ io.match # Unset
        /\ category_data.primary_category = Uncategorized
        /\ category_data.subcategory = General
        /\ category_data.confidence_score = 300
        /\ Len(category_data.rationale) > 0
        /\ (pc = "DONE" /\ io.name # Unset /\ io.name.kind = "text"
                /\ Len(GeneratedName) <= 2) => folder_name = Uncategorized

\* The category answer did not parse, no folder matched, and the naming stage
\* fell back to the fallback suggestion's primary category.
C11_Witness ==
    /\ pc = "DONE"
    /\ io.cat = Unparseable
    /\ io.match # Unset
    /\ io.name = Text(FolderPrefix \o <<" ", "a", "b", " ">>)
    /\ category_data.confidence_score = 300
    /\ folder_name = Uncategorized

\* The names of a set of folder rows.
FolderNamesOf(rows) == {f.name : f \in rows}

\* C12: no two stored folders have the same name; a create-folder request
\* either adds one folder whose name no stored folder had, or is answered with
\* the API's conflict response (400) and leaves the folders unchanged; a
\* create-bookmark request files its bookmark under a stored folder, which is
\* either a folder that was there before (and then no folder is added) or the
\* one folder it added, whose name no stored folder had.
C12_FolderNamesUnique ==
    [][/\ \A f, g \in folders' : f.name = g.name => f = g
       /\ resp'.op = "create_folder" =>
            \/ resp'.status = 400 /\ folders' = folders
            \/ /\ resp'.status = 200
               /\ \E f \in folders' \ folders :
                    /\ folders' = folders \cup {f}
                    /\ f.name \notin FolderNamesOf(folders)
       /\ resp'.op = "create_bookmark" =>
            \E b \in bookmarks' \ bookmarks, f \in folders' :
                /\ f.id = b.folder_id
                /\ \/ folders' = folders
                   \/ /\ folders' = folders \cup {f}
                      /\ f.name \notin FolderNamesOf(folders)]_vars

\* C13: a suggest-only request leaves the folders table and the bookmarks
\* table exactly as they were before it.
C13_SuggestLeavesStoreUnchanged ==
    [][resp'.op = "suggest_bookmark_metadata" =>
        folders' = folders /\ bookmarks' = bookmarks]_vars

\* A suggest-only request has been answered on a store that holds folders and
\* bookmarks.
C13_Witness ==
    /\ resp.op = "suggest_bookmark_metadata"
    /\ folders # {}
    /\ bookmarks # {}

\* The substring of a URL between its first "//" and the next "/".
HostOf(url) ==
    LET hits == {i \in 1..(Len(url) - 1) : url[i] = "/" /\ url[i + 1] = "/"}
        first == CHOOSE i \in hits : \A j \in hits : i <= j
    IN  IF hits = {} THEN Head(Split(url, <<"/">>))
        ELSE Head(Split(Drop(url, first + 1), <<"/">>))

\* C14: when the page fetch fails, extract does not raise and returns a
\* summary with an error marker and the domain, the domain being the part of
\* the URL between its first "//" and the next "/" (the host, also when the
\* path contains "//").
C14_ExtractorDegradation ==
    (io.page # Unset /\ ~io.page.ok) =>
        /\ pc # "START"
        /\ "error" \in DOMAIN content
        /\ "domain" \in DOMAIN content
        /\ content.domain = HostOf(inp.url)

\* C15: the only step of an update-bookmark request that writes is its commit
\* with status 200, and that step leaves the folders, every other bookmark,
\* the bookmark's id and url and every field the request did not supply as
\* they were, and gives the supplied fields the supplied values; a request
\* whose bookmark id or folder_id is not stored ends with 404, and no step of
\* it changes a stored row, whatever title, description or user_note it
\* supplied.
C15_UpdateAllOrNothing ==
    [][\A w \in Workers :
        (runs'[w] # runs[w] /\ runs'[w].op = "update_bookmark") =>
            LET req == runs'[w].req
                id == req.bookmark_id
            IN  /\ folders' = folders
                /\ (runs[w].pc = "line88" /\ id \notin Ids(bookmarks)) =>
                        runs'[w].pc = "done" /\ runs'[w].status = 404
                /\ (runs[w].pc = "line99" /\ req.folder_id.some
                        /\ req.folder_id.v \notin Ids(folders)) =>
                        runs'[w].pc = "done" /\ runs'[w].status = 404
                /\ IF runs'[w].pc = "done" /\ runs'[w].status = 200
                   THEN /\ Ids(bookmarks') = Ids(bookmarks)
                        /\ Cardinality(bookmarks') = Cardinality(bookmarks)
                        /\ \A b \in bookmarks : b.id # id => b \in bookmarks'
                        /\ \E old \in bookmarks, new \in bookmarks' :
                            /\ old.id = id /\ new.id = id
                            /\ new.url = old.url
                            /\ req.title = None => new.title = old.title
                            /\ req.description = None => new.description = old.description
                            /\ req.user_note = None => new.user_note = old.user_note
                            /\ ~req.folder_id.some => new.folder_id = old.folder_id
                            /\ runs[w].session.loaded = old =>
                                /\ req.title # None => new.title = req.title
                                /\ req.description # None => new.description = req.description
                                /\ req.user_note # None => new.user_note = req.user_note
                                /\ req.folder_id.some => new.folder_id = req.folder_id.v
                   ELSE bookmarks' = bookmarks]_vars

\* An update that supplied a new title together with a folder_id that is not
\* stored ended with 404, and the stored bookmark still has its old title.
C15_Witness ==
    \E w \in Workers :
        /\ runs[w].op = "update_bookmark"
        /\ runs[w].pc = "done"
        /\ runs[w].status = 404
        /\ runs[w].req.title # None
        /\ runs[w].req.folder_id.some
        /\ \E b \in bookmarks :
            b.id = runs[w].req.bookmark_id /\ b.title # runs[w].req.title

\* C16: when a delete-folder request has run at the same time as a
\* create-bookmark or a re-filing update-bookmark request and all of them have
\* ended, every stored bookmark's folder_id is the id of a stored folder.
C16_NoBookmarkInDeletedFolder ==
    (\A w \in Workers : runs[w].pc \in {"done", "failed"}) =>
        \A b \in bookmarks : \E f \in folders : f.id = b.folder_id

====
